---- MODULE Spec2Model ----
(***************************************************************************)
(* Model of zdownloadmanager/core/downloader.py: SegmentedDownloader, its  *)
(* SQLite manifest (meta + pieces tables), the destination file and the    *)
(* HTTP mirrors it talks to.  One behaviour is a sequence of download()    *)
(* runs on the same destination, possibly terminated and restarted.        *)
(***************************************************************************)
EXTENDS Integers, Sequences, FiniteSets, TLC

\* ---------------------------------------------------------------- bounds
FileSize == 4          \* length of the remote resource, in bytes
PieceSize == 2         \* the piece_size argument of the constructor
NumMirrors == 2        \* number of mirror urls
MaxConcurrency == 2    \* the concurrency argument ranges over 1..MaxConcurrency
MaxEvents == 4         \* constructions + terminations + external overwrites + faults
ChunkSize == 2         \* iter_content chunk size of the sequential stream
MaxPlanSize == 6       \* the planner is given sizes 1..MaxPlanSize

\* ------------------------------------------------------------ environment
\* The remote resource: byte o (0-based) of the resource is Res[o + 1].
Res == [i \in 1..FileSize |-> i]
\* The byte a truncate()-extended file holds.
Zero == 0
\* The byte an external overwrite of the destination stores.
Junk == FileSize + 1
\* The mirrors, in the order of the urls list.
Urls == 1..NumMirrors
\* Python's None for sha256 and last_url.
None == <<>>
NoUrl == 0

Min(a, b) == IF a < b THEN a ELSE b
Max(a, b) == IF a > b THEN a ELSE b

\* hashlib.sha256(data).hexdigest(): a collision-free digest, never empty
\* (so never falsy), distinct from None.
HashTag == <<"sha256">>
Sha256(data) == HashTag \o data

\* f.seek(start); f.read(n) on a file holding d: short at end of file.
ReadAt(d, start, n) ==
    IF start >= Len(d) THEN <<>> ELSE SubSeq(d, start + 1, Min(start + n, Len(d)))

\* open(dest, "rb+"); f.seek(start); f.write(data): overwrites in place, grows
\* the file when the write passes its end (a gap reads as zero bytes).
WriteAt(d, start, data) ==
    IF Len(data) = 0 THEN d
    ELSE [i \in 1..Max(Len(d), start + Len(data)) |->
            IF i > start /\ i <= start + Len(data) THEN data[i - start]
            ELSE IF i <= Len(d) THEN d[i]
            ELSE Zero]

\* open(dest, "wb"); f.truncate(n): a file of n zero bytes.
Zeros(n) == [i \in 1..n |-> Zero]

\* ------------------------------------------------------------------ state
VARIABLES
    serverMode,  \* how the mirrors behave: "ranges", "noranges" (deterministic) or "any"
    dbExists,    \* the manifest database file exists
    destExists,  \* self.dest.exists()
    dest,        \* the bytes of the destination file
    meta,        \* the manifest's meta table: key -> value
    rows,        \* the manifest's pieces table, ordered by idx (rows[i+1] has idx i)
    pc,          \* where download() is: "idle", "probe", ..., "returned", "raised"
    fsz,         \* file_size of this run (the probe's answer)
    rsup,        \* range_supported of this run
    psz,         \* self.piece_size
    conc,        \* self.concurrency
    pieces,      \* the in-memory piece list of this run
    k,           \* position of the loop the run is in (1-based)
    w,           \* the pool's tasks: piece idx -> [st, mi, body, io, seen, th]
    lock,        \* holder of self._lock (a piece idx) or NoHolder
    completed,   \* completed_count
    err,         \* what download() raised: [kind, idx, status]
    sbuf,        \* the part of the sequential response body not yet appended
    runs, crashes, corrupts, faults,   \* counters bounding the behaviour
    net,         \* history: kinds of HTTP request issued in this run
    attempts,    \* history: piece idx -> the responses its GETs got in this run
    seqReq,      \* history: the sequential GET of this run, [range, status] or NoReq
    dest0,       \* history: the destination when this run started
    rows0,       \* history: the pieces table when this run started
    meta0,       \* history: the meta table when this run started
    verified,    \* history: idx of the pieces the verifier found intact in this run
    demoted,     \* history: idx of the pieces the verifier demoted in this run
    progress,    \* history: the progress events of this run, [idx, completed, total]
    probed       \* history: the probe of this run, [sent, lengths], where it is traced

persisted == <<dbExists, destExists, dest, meta, rows>>
volatile == <<fsz, rsup, psz, conc, pieces, k, w, lock, completed, err, sbuf>>
counters == <<runs, crashes, corrupts, faults>>
history == <<net, attempts, seqReq, dest0, rows0, meta0, verified, demoted, progress,
            probed>>
vars == <<serverMode, persisted, pc, volatile, counters, history>>

\* What is left of the behaviour's budget of runs, terminations, external
\* overwrites and mirror faults.
Budget == MaxEvents - (runs + crashes + corrupts + faults)

NoHolder == 0 - 1
NoErr == [kind |-> "none", idx |-> 0 - 1, status |-> 0]
NoReq == [range |-> 0 - 1, status |-> 0]
EmptyFn == [x \in {} |-> 0]
NoProbe == [sent |-> <<>>, lengths |-> EmptyFn]
NoThread == 0

\* ------------------------------------------------------------ the manifest
\* Piece(idx, start, end): sha256=None, status="pending", last_url=None.
Piece(idx, start, end) ==
    [idx |-> idx, start |-> start, end |-> end,
     sha256 |-> None, status |-> "pending", last_url |-> NoUrl]

\* Python's a // b for b # 0 (floor division).
PyFloorDiv(a, b) == IF b > 0 THEN a \div b ELSE (0 - a) \div (0 - b)

\* A faulty variant of PieceCount: the quotient rounded down.
PieceCountFloor(file_size, piece_size) == PyFloorDiv(file_size, piece_size)

\* _enumerate_pieces: range(count) is empty when count <= 0.
PieceCount(file_size, piece_size) ==
    PyFloorDiv(file_size + piece_size - 1, piece_size)

EnumeratePieces(file_size, piece_size) ==
    [i \in 1..PieceCount(file_size, piece_size) |->
        Piece(i - 1,
              (i - 1) * piece_size,
              Min((i - 1) * piece_size + piece_size, file_size) - 1)]

\* _save_piece: INSERT OR REPLACE keyed by idx, committed.
SavePiece(table, piece) ==
    IF piece.idx + 1 <= Len(table)
    THEN [table EXCEPT ![piece.idx + 1] = piece]
    ELSE Append(table, piece)

\* _set_meta: INSERT OR REPLACE keyed by key, committed.
SetMeta(m, key, value) ==
    [x \in DOMAIN m \cup {key} |-> IF x = key THEN value ELSE m[x]]

\* _get_meta(key) is truthy.
HasMeta(m, key) == key \in DOMAIN m

\* -------------------------------------------------------------- the probe
\* A response to a probe request: exc (the request raised), status, the
\* Content-Length header (NoLength: missing or not all digits) and whether
\* Accept-Ranges is "bytes".
NoLength == 0 - 1
ProbeSizes(mode) == IF mode = "any" THEN {NoLength, 0, FileSize, FileSize - 1} ELSE {FileSize}
HeadResponses(mode) ==
    IF mode = "any"
    THEN [exc : BOOLEAN, status : {200, 404}, length : ProbeSizes(mode), ar : BOOLEAN]
    ELSE {[exc |-> FALSE, status |-> 200, length |-> FileSize, ar |-> (mode = "ranges")]}
RangeProbeResponses(mode) ==
    IF mode = "any" THEN [exc : BOOLEAN, status : {200, 206, 404}]
    ELSE {[exc |-> FALSE, status |-> IF mode = "ranges" THEN 206 ELSE 200]}

\* _probe_server(url) -> (file_size, range_supported), from the responses to
\* its HEAD, its GET fallback and its bytes=0-0 request.
ProbeServer(head, get, rp) ==
    IF head.exc \/ (head.status >= 400 /\ get.exc)
    THEN [file_size |-> 0, range_supported |-> FALSE]
    ELSE LET resp == IF head.status >= 400 THEN get ELSE head
         IN [file_size |-> IF resp.length > 0 THEN resp.length ELSE 0,
             range_supported |-> resp.ar \/ (~rp.exc /\ rp.status = 206)]

\* ---------------------------------------------------------------- Init
Init ==
    /\ serverMode \in {"ranges", "noranges", "any"}
    /\ dbExists = FALSE
    /\ destExists = FALSE
    /\ dest = <<>>
    /\ meta = EmptyFn
    /\ rows = <<>>
    /\ pc = "idle"
    /\ fsz = 0 /\ rsup = FALSE /\ psz = PieceSize /\ conc = 1
    /\ pieces = <<>> /\ k = 1 /\ w = EmptyFn /\ lock = NoHolder
    /\ completed = 0 /\ err = NoErr /\ sbuf = <<>>
    /\ runs = 0 /\ crashes = 0 /\ corrupts = 0 /\ faults = 0
    /\ net = {} /\ attempts = EmptyFn /\ seqReq = NoReq
    /\ dest0 = <<>> /\ rows0 = <<>> /\ meta0 = EmptyFn /\ verified = {} /\ demoted = {}
    /\ progress = <<>>
    /\ probed = NoProbe

\* The state of a process that is not inside download().
ResetVolatile ==
    /\ fsz' = 0 /\ rsup' = FALSE /\ psz' = PieceSize /\ conc' = 1
    /\ pieces' = <<>> /\ k' = 1 /\ w' = EmptyFn /\ lock' = NoHolder
    /\ completed' = 0 /\ err' = NoErr /\ sbuf' = <<>>

\* ------------------------------------------------------ download(): prologue
\* A url is a sequence of characters: Space is a whitespace character, the
\* character m >= 1 spells the address of mirror m.
Space == 0

\* str.strip(): drop the leading and the trailing whitespace.
RECURSIVE StripLeft(_)
StripLeft(s) == IF s # <<>> /\ Head(s) = Space THEN StripLeft(Tail(s)) ELSE s
RECURSIVE StripRight(_)
StripRight(s) ==
    IF s # <<>> /\ s[Len(s)] = Space THEN StripRight(SubSeq(s, 1, Len(s) - 1)) ELSE s
Strip(s) == StripRight(StripLeft(s))

\* Line 56: [url.strip() for url in urls if url.strip()].
RECURSIVE StrippedUrls(_)
StrippedUrls(u) ==
    IF u = <<>> THEN <<>>
    ELSE IF Strip(Head(u)) # <<>> THEN <<Strip(Head(u))>> \o StrippedUrls(Tail(u))
    ELSE StrippedUrls(Tail(u))

\* A faulty variant of NoUrlLeft: only the list itself is tested.
NoUrlGiven(u) == u = <<>>

\* Line 57: not self.urls.
NoUrlLeft(u) == StrippedUrls(u) = <<>>

\* The urls argument that names the mirrors, in order; the same list with
\* padded entries and a blank one; the lists that hold nothing but blanks.
ValidUrls == [m \in 1..NumMirrors |-> <<m>>]
PaddedUrls ==
    [m \in 1..(NumMirrors + 1) |-> IF m <= NumMirrors THEN <<Space, m, Space>> ELSE <<Space>>]
BlankUrls == {<<>>, <<Space>>, <<Space, Space>>}
BlankLists == UNION {[1..n -> BlankUrls] : n \in 0..NumMirrors}

\* The arguments a caller may construct the downloader with.
UrlArgs == {ValidUrls, PaddedUrls} \cup BlankLists
PieceSizeArgs == {0 - PieceSize, 0, PieceSize}
ConcurrencyArgs == 0..MaxConcurrency

\* Lines 47-71 and 159: SegmentedDownloader(u, dest, ps, c) raises ValueError
\* when no url is left after stripping, before anything is opened; else it
\* stores the arguments as given, opens (creates) the manifest database, and
\* download() is called on the object.
Construct(u, ps, c) ==
    /\ pc = "idle"
    /\ Budget > 0
    /\ runs' = runs + 1
    /\ StrippedUrls(u) \in {<<>>, ValidUrls}
    /\ IF NoUrlLeft(u)
       THEN /\ pc' = "rejected"
            /\ err' = [kind |-> "ValueError", idx |-> 0 - 1, status |-> 0]
            /\ UNCHANGED <<dbExists, psz, conc>>
       ELSE /\ pc' = "probe"
            /\ dbExists' = TRUE
            /\ psz' = ps
            /\ conc' = c
            /\ err' = err
    /\ net' = {} /\ attempts' = EmptyFn /\ seqReq' = NoReq
    /\ dest0' = dest /\ rows0' = rows /\ meta0' = meta /\ verified' = {} /\ demoted' = {}
    /\ progress' = <<>>
    /\ probed' = NoProbe
    /\ UNCHANGED <<fsz, rsup, pieces, k, w, lock, completed, sbuf>>
    /\ UNCHANGED <<serverMode, destExists, dest, meta, rows, crashes, corrupts, faults>>

\* A caller that passes the mirrors, the piece size and a concurrency of at
\* least one.
Start == \E c \in 1..MaxConcurrency : Construct(ValidUrls, PieceSize, c)

\* A faulty variant of SizeUnknown: a size of zero is taken as a size.
SizeUnknownNever(file_size) == FALSE

\* Line 163: if file_size == 0.
SizeUnknown(file_size) == file_size = 0

\* Lines 162-167: probe urls[0]; raise when the size is unknown, else persist
\* file_size and range_supported.  The GET fallback is sent only after a HEAD
\* status >= 400 and the bytes=0-0 request only without Accept-Ranges: bytes;
\* a request that is not sent has no influence on the result.
ProbeStep(head, get, rp) ==
    /\ pc = "probe"
    /\ LET r == ProbeServer(head, get, rp) IN
         /\ faults' = IF r.file_size = FileSize THEN faults ELSE faults + 1
         /\ faults' <= faults + Budget
         /\ fsz' = r.file_size
         /\ rsup' = r.range_supported
         /\ IF SizeUnknown(r.file_size)
            THEN /\ pc' = "raised"
                 /\ err' = [kind |-> "DownloadError", idx |-> 0 - 1, status |-> 0]
                 /\ meta' = meta
            ELSE /\ pc' = "prepare"
                 /\ err' = err
                 /\ meta' = SetMeta(SetMeta(meta, "file_size", r.file_size),
                                    "range_supported", IF r.range_supported THEN 1 ELSE 0)
    /\ net' = net \cup {"probe"}
    /\ UNCHANGED <<serverMode, dbExists, destExists, dest, rows, psz, conc, pieces, k, w, lock,
                   completed, sbuf, runs, crashes, corrupts, attempts, seqReq, dest0,
                   rows0, meta0, verified, demoted, progress>>

\* The probe, with the answers of urls[0] to the requests it sends.
Probe ==
    /\ \E head \in HeadResponses(serverMode) :
       \E get \in IF ~head.exc /\ head.status >= 400
                  THEN HeadResponses(serverMode) ELSE {head} :
       \E rp \in IF ~get.exc /\ ~get.ar
                 THEN RangeProbeResponses(serverMode)
                 ELSE {[exc |-> FALSE, status |-> 206]} :
         ProbeStep(head, get, rp)
    /\ probed' = probed

\* A faulty variant of PreparedDest: range mode pre-sizes the file on every run.
PreparedDestAlways(exists, d, file_size, range_supported) ==
    IF range_supported THEN Zeros(file_size)
    ELSE IF exists /\ Len(d) <= file_size THEN d ELSE <<>>

\* A faulty variant of PreparedDest: range mode keeps a file of another length.
PreparedDestIfAbsent(exists, d, file_size, range_supported) ==
    IF range_supported
    THEN IF ~exists THEN Zeros(file_size) ELSE d
    ELSE IF exists /\ Len(d) <= file_size THEN d ELSE <<>>

\* A faulty variant of PreparedDest: the sequential mode pre-sizes a new file.
PreparedDestPresized(exists, d, file_size, range_supported) ==
    IF range_supported
    THEN IF ~exists \/ Len(d) # file_size THEN Zeros(file_size) ELSE d
    ELSE IF ~exists THEN Zeros(file_size)
    ELSE IF Len(d) <= file_size THEN d ELSE <<>>

\* Lines 170-190: prepare the destination for the mode.
PreparedDest(exists, d, file_size, range_supported) ==
    IF range_supported
    THEN IF ~exists \/ Len(d) # file_size THEN Zeros(file_size) ELSE d
    ELSE IF exists /\ Len(d) <= file_size THEN d ELSE <<>>

Prepare ==
    /\ pc = "prepare"
    /\ dest' = PreparedDest(destExists, dest, fsz, rsup)
    /\ destExists' = TRUE
    /\ pc' = "load"
    /\ UNCHANGED <<serverMode, dbExists, meta, rows, volatile, counters, history>>

\* Lines 193-196: load the piece table, or plan it; line 110 divides by
\* piece_size, and the ZeroDivisionError of a zero piece_size leaves download().
LoadOrPlan ==
    /\ pc = "load"
    /\ IF HasMeta(meta, "initialised")
       THEN /\ pieces' = rows
            /\ pc' = "verify"
            /\ err' = err
       ELSE IF psz = 0
       THEN /\ pieces' = pieces
            /\ pc' = "raised"
            /\ err' = [kind |-> "ZeroDivisionError", idx |-> 0 - 1, status |-> 0]
       ELSE /\ pieces' = EnumeratePieces(fsz, psz)
            /\ pc' = "init"
            /\ err' = err
    /\ k' = 1
    /\ UNCHANGED <<serverMode, persisted, fsz, rsup, psz, conc, w, lock, completed,
                   sbuf, counters, history>>

\* Lines 197-199: save the planned pieces one by one, then set initialised.
InitSave ==
    /\ pc = "init"
    /\ IF k <= Len(pieces)
       THEN /\ rows' = SavePiece(rows, pieces[k])
            /\ k' = k + 1
            /\ UNCHANGED <<meta, pc>>
       ELSE /\ meta' = SetMeta(meta, "initialised", 1)
            /\ k' = 1
            /\ pc' = "verify"
            /\ rows' = rows
    /\ UNCHANGED <<serverMode, dbExists, destExists, dest, fsz, rsup, psz, conc, pieces, w, lock,
                   completed, err, sbuf, counters, history>>

\* A faulty variant of Mismatch: a piece the file is too short for is skipped.
MismatchFullRead(d, piece) ==
    /\ piece.status = "done"
    /\ piece.sha256 # None
    /\ piece.end < Len(d)
    /\ Sha256(ReadAt(d, piece.start, piece.end - piece.start + 1)) # piece.sha256

\* Lines 203-207: the piece is recorded done with a hash, and the bytes
\* of [start, end] hash to something else.
Mismatch(d, piece) ==
    /\ piece.status = "done"
    /\ piece.sha256 # None
    /\ Sha256(ReadAt(d, piece.start, piece.end - piece.start + 1)) # piece.sha256

Intact(d, piece) ==
    /\ piece.status = "done"
    /\ piece.sha256 # None
    /\ Sha256(ReadAt(d, piece.start, piece.end - piece.start + 1)) = piece.sha256

\* A faulty variant of Demote: the stale hash stays on the pending row.
DemoteKeepHash(piece) == [piece EXCEPT !.status = "pending"]

\* Lines 208-209: demote.
Demote(piece) == [piece EXCEPT !.status = "pending", !.sha256 = None]

\* Lines 201-210: verify the pieces recorded done, one per step.
Verify ==
    /\ pc = "verify"
    /\ IF k <= Len(pieces)
       THEN /\ IF Mismatch(dest, pieces[k])
               THEN /\ pieces' = [pieces EXCEPT ![k] = Demote(pieces[k])]
                    /\ rows' = SavePiece(rows, Demote(pieces[k]))
                    /\ demoted' = demoted \cup {pieces[k].idx}
                    /\ verified' = verified
               ELSE /\ verified' = IF Intact(dest, pieces[k])
                                   THEN verified \cup {pieces[k].idx} ELSE verified
                    /\ UNCHANGED <<pieces, rows, demoted>>
            /\ k' = k + 1
            /\ pc' = pc
       ELSE /\ pc' = "dispatch"
            /\ k' = 1
            /\ UNCHANGED <<pieces, rows, demoted, verified>>
    /\ UNCHANGED <<serverMode, dbExists, destExists, dest, meta, fsz, rsup, psz, conc, w, lock,
                   completed, err, sbuf, counters, net, attempts, seqReq, dest0, rows0, meta0,
                   progress, probed>>

\* A faulty variant of Pending: every piece is fetched again.
PendingAll(ps) == {ps[i].idx : i \in 1..Len(ps)}

\* Line 213: pending = [p for p in pieces if p.status != "done"], as idx.
Pending(ps) == {ps[i].idx : i \in {j \in 1..Len(ps) : ps[j].status # "done"}}

\* Lines 213-223 and 254-255: return when nothing is pending, else hand over to
\* the sequential fallback or submit one task per pending piece;
\* ThreadPoolExecutor(max_workers) raises ValueError when max_workers <= 0.
Dispatch ==
    /\ pc = "dispatch"
    /\ IF Pending(pieces) = {}
       THEN /\ pc' = "returned"
            /\ UNCHANGED <<w, err>>
       ELSE IF ~rsup
       THEN /\ pc' = "seq"
            /\ UNCHANGED <<w, err>>
       ELSE IF conc <= 0
       THEN /\ pc' = "raised"
            /\ err' = [kind |-> "ValueError", idx |-> 0 - 1, status |-> 0]
            /\ w' = w
       ELSE /\ pc' = "pool"
            /\ w' = [p \in Pending(pieces) |->
                        [st |-> "queued", mi |-> 1, body |-> <<>>, io |-> FALSE, seen |-> 0,
                         th |-> NoThread]]
            /\ err' = err
    /\ attempts' = [p \in Pending(pieces) |-> <<>>]
    /\ UNCHANGED <<serverMode, persisted, fsz, rsup, psz, conc, pieces, k, lock,
                   completed, sbuf, counters, net, seqReq, dest0, rows0,
                   meta0, verified, demoted, progress, probed>>

\* ------------------------------------------------------ the mirrors (range mode)
\* What a mirror that honours Range answers to bytes=start-end.
HonestRange(start, end) ==
    IF start >= FileSize
    THEN [exc |-> FALSE, status |-> 416, body |-> <<>>]
    ELSE [exc |-> FALSE, status |-> 206, body |-> ReadAt(Res, start, end - start + 1)]

\* The whole resource with status 200: a mirror that ignores Range.
FullResponse == [exc |-> FALSE, status |-> 200, body |-> Res]

\* A 206 whose body stops one byte early.
ShortResponse(start, end) ==
    [exc |-> FALSE, status |-> 206,
     body |-> ReadAt(Res, start, end - start)]

NetworkError == [exc |-> TRUE, status |-> 0, body |-> <<>>]
ServerError == [exc |-> FALSE, status |-> 500, body |-> <<>>]

RangeResponses(mode, start, end) ==
    IF mode = "ranges" THEN {HonestRange(start, end)}
    ELSE IF mode = "noranges" THEN {FullResponse}
    ELSE {NetworkError, ServerError, HonestRange(start, end), FullResponse,
          ShortResponse(start, end)}

\* The answers that count as the mirror working: what a server that honours
\* Range sends, or, from a server known to ignore it, the whole resource.
HonestResponses(mode, start, end) ==
    IF mode = "noranges" THEN {FullResponse} ELSE {HonestRange(start, end)}

\* ------------------------------------------------------ the pool's workers
\* Where download() is while the pool exists: waiting in as_completed, in the
\* cancel loop, or leaving the with block.
PoolPhase == {"pool", "cancelling", "failing"}
Running == {"fetch", "got", "locked", "written", "saving", "racing", "saved", "counting"}
Tasks == DOMAIN w
InState(states) == {p \in Tasks : w[p].st \in states}

\* The executor's queue is first in, first out: the next task a free thread
\* takes is the queued one submitted first (pending is in idx order).
NextQueued(p) == p \in InState({"queued"}) /\ \A q \in InState({"queued"}) : p <= q

\* A faulty variant of FreeThread: every submitted task gets a thread at once.
FreeThreadUnbounded(busy, max_workers) == TRUE

\* Line 254: the pool starts a thread for a queued task only while fewer than
\* max_workers threads are busy.
FreeThread(busy, max_workers) == busy < max_workers

\* A free pool thread takes the next task: worker(piece) starts with urls[0].
WStart(p) ==
    /\ pc \in PoolPhase
    /\ NextQueued(p)
    /\ FreeThread(Cardinality(InState(Running)), conc)
    /\ w' = [w EXCEPT ![p].st = "fetch"]
    /\ UNCHANGED <<serverMode, persisted, pc, fsz, rsup, psz, conc, pieces, k, lock,
                   completed, err, sbuf, counters, history>>

\* A faulty variant of IdleThreads: a thread takes work while it runs a task.
IdleThreadsAll(busy, max_workers) == 1..max_workers

\* Line 254: the pool has max_workers threads, numbered from 1, and a thread
\* takes a task from the queue only when it is not running one.
IdleThreads(busy, max_workers) == (1..max_workers) \ busy

\* WStart with the pool's threads told apart: thread t takes the next task.
WStartOn(p, t) ==
    /\ pc \in PoolPhase
    /\ NextQueued(p)
    /\ t \in IdleThreads({w[q].th : q \in InState(Running)}, conc)
    /\ w' = [w EXCEPT ![p].st = "fetch", ![p].th = t]
    /\ UNCHANGED <<serverMode, persisted, pc, fsz, rsup, psz, conc, pieces, k, lock,
                   completed, err, sbuf, counters, history>>

\* Line 232: the statuses the worker accepts.
Accepted(resp) == ~resp.exc /\ resp.status \in {206, 200}

\* A faulty variant of AfterFailure: the first failure of a mirror fails the piece.
AfterFailureGiveUp(task) == [task EXCEPT !.st = "failed"]

\* Lines 227, 233 and 245-248: after a failed mirror the loop goes on to the next
\* url; its else clause raises DownloadError when there is none left.
AfterFailure(task) ==
    IF task.mi < NumMirrors THEN [task EXCEPT !.mi = @ + 1]
    ELSE [task EXCEPT !.st = "failed"]

\* Lines 227-234 and 245-248: GET bytes=start-end from urls[mi]; on an exception
\* or another status go on to the next mirror, and raise when there is none.
WRequest(p) ==
    /\ pc \in PoolPhase
    /\ p \in Tasks
    /\ w[p].st = "fetch"
    /\ \E resp \in RangeResponses(serverMode, pieces[p + 1].start, pieces[p + 1].end) :
         /\ faults' = IF resp \in HonestResponses(serverMode, pieces[p + 1].start,
                                                  pieces[p + 1].end)
                       THEN faults ELSE faults + 1
         /\ faults' <= faults + Budget
         /\ attempts' = [attempts EXCEPT ![p] =
                Append(@, [url |-> w[p].mi, exc |-> resp.exc, status |-> resp.status,
                           len |-> Len(resp.body)])]
         /\ IF Accepted(resp)
            THEN w' = [w EXCEPT ![p].st = "got", ![p].body = resp.body]
            ELSE w' = [w EXCEPT ![p] = AfterFailure(@)]
    /\ net' = net \cup {"piece"}
    /\ UNCHANGED <<serverMode, persisted, pc, fsz, rsup, psz, conc, pieces, k, lock,
                   completed, err, sbuf, runs, crashes, corrupts, seqReq, dest0, rows0,
                   meta0, verified, demoted, progress, probed>>

\* A faulty variant of LockFree: the writes are not guarded.
LockFreeAlways(holder) == TRUE

\* Lines 66 and 236: self._lock can be acquired while no worker holds it.
LockFree(holder) == holder = NoHolder

\* Line 236: with self._lock.
WLock(p) ==
    /\ pc \in PoolPhase
    /\ p \in Tasks
    /\ w[p].st = "got"
    /\ LockFree(lock)
    /\ lock' = p
    /\ w' = [w EXCEPT ![p].st = "locked"]
    /\ UNCHANGED <<serverMode, persisted, pc, fsz, rsup, psz, conc, pieces, k,
                   completed, err, sbuf, counters, history>>

\* A faulty variant of Released: the worker leaves the write and keeps the lock.
ReleasedNever(holder) == holder

\* Lines 236-239: leaving the with self._lock block releases the lock.
Released(holder) == NoHolder

\* Lines 237-239: open, seek to piece.start, write the body, close; the lock
\* is released on leaving the with block.
WWrite(p) ==
    /\ pc \in PoolPhase
    /\ p \in Tasks
    /\ w[p].st = "locked"
    /\ dest' = WriteAt(dest, pieces[p + 1].start, w[p].body)
    /\ lock' = Released(lock)
    /\ w' = [w EXCEPT ![p].st = "written"]
    /\ UNCHANGED <<serverMode, dbExists, destExists, meta, rows, pc, fsz, rsup, psz, conc, pieces,
                   k, completed, err, sbuf, counters, history>>

\* A faulty variant of Completed: last_url is always the first mirror.
CompletedFirstUrl(piece, body, url) ==
    [piece EXCEPT !.sha256 = Sha256(body), !.status = "done", !.last_url = 1]

\* Lines 235 and 240-242: the piece as the worker records it.
Completed(piece, body, url) ==
    [piece EXCEPT !.sha256 = Sha256(body), !.status = "done", !.last_url = url]

\* A faulty variant of Journalable: the piece is journaled as soon as its body
\* has arrived, written or not.
JournalableUnwritten(task) == task.st \in {"got", "written"}

\* Lines 236-243: the worker reaches _save_piece after it has left the with
\* blocks of the write: the file is closed and the lock released.
Journalable(task) == task.st = "written"

\* Lines 240-244: journal the piece.
WSave(p) ==
    /\ pc \in PoolPhase
    /\ p \in Tasks
    /\ Journalable(w[p])
    /\ pieces' = [pieces EXCEPT ![p + 1] = Completed(@, w[p].body, w[p].mi)]
    /\ rows' = SavePiece(rows, Completed(pieces[p + 1], w[p].body, w[p].mi))
    /\ w' = [w EXCEPT ![p].st = "saved", ![p].body = <<>>]
    /\ UNCHANGED <<serverMode, dbExists, destExists, dest, meta, pc, fsz, rsup, psz, conc, k, lock,
                   completed, err, sbuf, counters, history>>

\* A faulty variant of ProgressLockFree: the counter is not guarded.
ProgressLockFreeAlways(holders) == TRUE

\* Lines 221 and 249: progress_lock can be acquired while no worker holds it.
ProgressLockFree(holders) == holders = {}

\* Lines 249-250: acquire progress_lock and read completed_count, the first
\* half of completed_count += 1.
WCount(p) ==
    /\ pc \in PoolPhase
    /\ p \in Tasks
    /\ w[p].st = "saved"
    /\ ProgressLockFree(InState({"counting"}))
    /\ w' = [w EXCEPT ![p].st = "counting", ![p].seen = completed]
    /\ UNCHANGED <<serverMode, persisted, pc, fsz, rsup, psz, conc, pieces, k, lock,
                   completed, err, sbuf, counters, history>>

\* Lines 223 and 250-252: store the sum, print "Downloaded completed/total"
\* with total = len(pending), release progress_lock; the task is over.
WProgress(p) ==
    /\ pc \in PoolPhase
    /\ p \in Tasks
    /\ w[p].st = "counting"
    /\ completed' = w[p].seen + 1
    /\ progress' = Append(progress, [idx |-> p, completed |-> w[p].seen + 1,
                                     total |-> Cardinality(Tasks)])
    /\ w' = [w EXCEPT ![p].st = "finished"]
    /\ UNCHANGED <<serverMode, persisted, pc, fsz, rsup, psz, conc, pieces, k, lock,
                   err, sbuf, counters, net, attempts, seqReq, dest0, rows0, meta0,
                   verified, demoted, probed>>

\* Lines 256-258: as_completed yields a future that raised; download() holds
\* its exception.
PoolFail(p) ==
    /\ pc = "pool"
    /\ p \in Tasks
    /\ w[p].st = "failed"
    /\ err' = [kind |-> "DownloadError", idx |-> p, status |-> 0]
    /\ pc' = "cancelling"
    /\ k' = 1
    /\ UNCHANGED <<serverMode, persisted, fsz, rsup, psz, conc, pieces, w, lock,
                   completed, sbuf, counters, history>>

\* A faulty variant of Cancelled: cancel() has no effect.
CancelledNever(task) == task

\* Line 261: Future.cancel() cancels a future that has not started and leaves
\* a running or finished one alone.
Cancelled(task) == IF task.st = "queued" THEN [task EXCEPT !.st = "cancelled"] ELSE task

\* Lines 260-262: the cancel loop, one future (in the order of pending) per
\* step, while the pool's threads go on; after the last one, raise.
PoolCancel ==
    /\ pc = "cancelling"
    /\ LET rest == {q \in Tasks : q >= k - 1} IN
       IF rest = {}
       THEN /\ pc' = "failing"
            /\ k' = 1
            /\ w' = w
       ELSE LET q == CHOOSE x \in rest : \A y \in rest : x <= y IN
            /\ w' = [w EXCEPT ![q] = Cancelled(@)]
            /\ k' = q + 2
            /\ pc' = pc
    /\ UNCHANGED <<serverMode, persisted, fsz, rsup, psz, conc, pieces, lock,
                   completed, err, sbuf, counters, history>>

\* A faulty variant of Drained: the with block is left without waiting.
DrainedNoWait == TRUE

\* Line 254: ThreadPoolExecutor.__exit__ is shutdown(wait=True): it returns
\* when the pool's threads have nothing left to run.
Drained == InState(Running \cup {"queued"}) = {}

\* Lines 254 and 262: the exception leaves the with block, which waits for the
\* pool, and reaches the caller.
PoolRaise ==
    /\ pc = "failing"
    /\ Drained
    /\ pc' = "raised"
    /\ UNCHANGED <<serverMode, persisted, volatile, counters, history>>

\* Lines 256-263: every future completed without an exception.
PoolReturn ==
    /\ pc = "pool"
    /\ \A p \in Tasks : w[p].st = "finished"
    /\ pc' = "returned"
    /\ UNCHANGED <<serverMode, persisted, volatile, counters, history>>

\* -------------------------------------------------- the sequential fallback
\* What urls[0] answers to the sequential GET; offset = 0 means no Range header.
HonestStream(offset) ==
    IF offset = 0 THEN FullResponse
    ELSE IF offset >= FileSize THEN [exc |-> FALSE, status |-> 416, body |-> <<>>]
    ELSE [exc |-> FALSE, status |-> 206, body |-> SubSeq(Res, offset + 1, FileSize)]

\* The server closes the stream one byte early and the client sees the end of
\* the body, not an exception.
ShortStream(offset) ==
    [HonestStream(offset) EXCEPT !.body = SubSeq(@, 1, Len(@) - 1)]

StreamResponses(mode, offset) ==
    IF mode = "ranges" THEN {HonestStream(offset)}
    ELSE IF mode = "noranges" THEN {FullResponse}
    ELSE {NetworkError, ServerError, HonestStream(offset), FullResponse,
          ShortStream(offset)}

\* A faulty variant of SeqAccepted: every status below 500 is streamed.
SeqAcceptedBelow500(status) == status < 500

\* Line 282: the statuses the fallback accepts.
SeqAccepted(status) == status \in {200, 206}

\* A faulty variant of ExistingSize: the fallback always starts over.
ExistingSizeRestart(exists, d, file_size) == 0

\* Lines 268-276: existing_size, and the file after the oversize check.
ExistingSize(exists, d, file_size) ==
    IF exists /\ Len(d) <= file_size THEN Len(d) ELSE 0

\* Lines 268-283: find the resume position and send the GET (with
\* Range: bytes=existing_size- when existing_size > 0).
SeqStart ==
    /\ pc = "seq"
    /\ LET existing == ExistingSize(destExists, dest, fsz) IN
       /\ dest' = IF destExists /\ Len(dest) > fsz THEN <<>> ELSE dest
       /\ \E resp \in StreamResponses(serverMode, existing) :
            /\ faults' = IF resp \in {HonestStream(existing), FullResponse}
                          THEN faults ELSE faults + 1
            /\ faults' <= faults + Budget
            /\ seqReq' = [range |-> IF existing > 0 THEN existing ELSE 0 - 1,
                          status |-> resp.status]
            /\ IF resp.exc
               THEN /\ pc' = "raised"
                    /\ err' = [kind |-> "RequestException", idx |-> 0 - 1, status |-> 0]
                    /\ sbuf' = <<>>
               ELSE IF ~SeqAccepted(resp.status)
               THEN /\ pc' = "raised"
                    /\ err' = [kind |-> "DownloadError", idx |-> 0 - 1,
                               status |-> resp.status]
                    /\ sbuf' = <<>>
               ELSE /\ pc' = "stream"
                    /\ err' = err
                    /\ sbuf' = resp.body
    /\ net' = net \cup {"stream"}
    /\ UNCHANGED <<serverMode, dbExists, destExists, meta, rows, fsz, rsup, psz, conc, pieces, k, w,
                   lock, completed, runs, crashes, corrupts, attempts, dest0, rows0,
                   meta0, verified, demoted, progress, probed>>

\* Lines 284-287: append the next chunk of the body.
SeqChunk ==
    /\ pc = "stream"
    /\ sbuf # <<>>
    /\ dest' = dest \o SubSeq(sbuf, 1, Min(ChunkSize, Len(sbuf)))
    /\ sbuf' = SubSeq(sbuf, Min(ChunkSize, Len(sbuf)) + 1, Len(sbuf))
    /\ UNCHANGED <<serverMode, dbExists, destExists, meta, rows, pc, fsz, rsup, psz, conc, pieces,
                   k, w, lock, completed, err, counters, history>>

\* Line 285: the connection breaks in mid-stream; iter_content raises.
SeqBreak ==
    /\ pc = "stream"
    /\ serverMode = "any"
    /\ sbuf # <<>>
    /\ Budget > 0
    /\ faults' = faults + 1
    /\ pc' = "raised"
    /\ err' = [kind |-> "RequestException", idx |-> 0 - 1, status |-> 0]
    /\ sbuf' = <<>>
    /\ UNCHANGED <<serverMode, persisted, fsz, rsup, psz, conc, pieces, k, w, lock,
                   completed, runs, crashes, corrupts, history>>

\* Line 289: the stream ended; reload the piece table.
SeqLoad ==
    /\ pc = "stream"
    /\ sbuf = <<>>
    /\ pieces' = rows
    /\ k' = 1
    /\ pc' = "journal"
    /\ UNCHANGED <<serverMode, persisted, fsz, rsup, psz, conc, w, lock, completed,
                   err, sbuf, counters, history>>

\* Lines 292-296: the piece as the fallback records it, from the file's bytes.
Journaled(d, piece) ==
    [piece EXCEPT !.sha256 = Sha256(ReadAt(d, piece.start, piece.end - piece.start + 1)),
                  !.status = "done", !.last_url = 1]

\* Lines 290-297: hash and journal every piece, one per step, then return.
SeqJournal ==
    /\ pc = "journal"
    /\ IF k <= Len(pieces)
       THEN /\ pieces' = [pieces EXCEPT ![k] = Journaled(dest, @)]
            /\ rows' = SavePiece(rows, Journaled(dest, pieces[k]))
            /\ k' = k + 1
            /\ pc' = pc
       ELSE /\ pc' = "returned"
            /\ UNCHANGED <<pieces, rows, k>>
    /\ UNCHANGED <<serverMode, dbExists, destExists, dest, meta, fsz, rsup, psz, conc, w, lock,
                   completed, err, sbuf, counters, history>>

\* ------------------------------------------------------------ between runs
ResetHistory ==
    /\ net' = {} /\ attempts' = EmptyFn /\ seqReq' = NoReq
    /\ dest0' = <<>> /\ rows0' = <<>> /\ meta0' = EmptyFn /\ verified' = {} /\ demoted' = {}
    /\ progress' = <<>>
    /\ probed' = NoProbe

\* The constructor raised, or download() has returned or raised; control is
\* back at the caller.
Finish ==
    /\ pc \in {"rejected", "returned", "raised"}
    /\ pc' = "idle"
    /\ ResetVolatile
    /\ ResetHistory
    /\ UNCHANGED <<serverMode, persisted, counters>>

\* The process is terminated inside download(): only the files survive.
Crash ==
    /\ pc \notin {"idle", "rejected", "returned", "raised"}
    /\ Budget > 0
    /\ crashes' = crashes + 1
    /\ pc' = "idle"
    /\ ResetVolatile
    /\ ResetHistory
    /\ UNCHANGED <<serverMode, persisted, runs, corrupts, faults>>

\* Between two runs something else overwrites one byte of the destination.
Corrupt(i) ==
    /\ pc = "idle"
    /\ destExists
    /\ Budget > 0
    /\ i \in 1..Len(dest)
    /\ dest[i] # Junk
    /\ dest' = [dest EXCEPT ![i] = Junk]
    /\ corrupts' = corrupts + 1
    /\ UNCHANGED <<serverMode, dbExists, destExists, meta, rows, pc, volatile, runs, crashes, faults,
                   history>>

\* The steps of download(), but a thread's taking a task and a worker's
\* _save_piece.
Download ==
    \/ Probe
    \/ Prepare
    \/ LoadOrPlan
    \/ InitSave
    \/ Verify
    \/ Dispatch
    \/ \E p \in 0..FileSize : WRequest(p)
    \/ \E p \in 0..FileSize : WLock(p)
    \/ \E p \in 0..FileSize : WWrite(p)
    \/ \E p \in 0..FileSize : WCount(p)
    \/ \E p \in 0..FileSize : WProgress(p)
    \/ \E p \in 0..FileSize : PoolFail(p)
    \/ PoolCancel
    \/ PoolRaise
    \/ PoolReturn
    \/ SeqStart
    \/ SeqChunk
    \/ SeqBreak
    \/ SeqLoad
    \/ SeqJournal

\* The steps of the caller and of download(), but a thread's taking a task and
\* a worker's _save_piece.
Calls ==
    \/ Start
    \/ Download
    \/ Finish

\* Every step but a thread's taking a task and a worker's _save_piece.
Core ==
    \/ Calls
    \/ Crash
    \/ \E i \in 1..(2 * FileSize) : Corrupt(i)

\* Every step but a worker's _save_piece; the pool's threads are not told
\* apart.
Steps ==
    \/ Core
    \/ \E p \in 0..FileSize : WStart(p)

\* The runs in which no two _save_piece calls of the workers overlap: each call
\* is one step.
Next ==
    \/ Steps
    \/ \E p \in 0..FileSize : WSave(p)

Spec == Init /\ [][Next]_vars

\* ------------------------------------------- local I/O failures in a worker
\* Lines 227 and 245-246: what the worker does with an exception raised after
\* the response was accepted: the except clause swallows it and the loop goes
\* on to the next url (or raises DownloadError when there is none).
AfterLocalFailure(task) ==
    AfterFailure([task EXCEPT !.st = "fetch", !.body = <<>>, !.io = TRUE])

\* Lines 236-239: open(self.dest, "rb+") or the write raises OSError; nothing
\* is written, the lock is released on leaving the with block.
WWriteFail(p) ==
    /\ pc \in PoolPhase
    /\ p \in Tasks
    /\ w[p].st = "locked"
    /\ Budget > 0
    /\ faults' = faults + 1
    /\ lock' = NoHolder
    /\ w' = [w EXCEPT ![p] = AfterLocalFailure(@)]
    /\ UNCHANGED <<serverMode, persisted, pc, fsz, rsup, psz, conc, pieces, k,
                   completed, err, sbuf, runs, crashes, corrupts, history>>

\* Lines 240-243 and 124-130: the piece is updated in memory, then the
\* INSERT OR REPLACE or the commit of _save_piece raises; no row is changed.
WSaveFail(p) ==
    /\ pc \in PoolPhase
    /\ p \in Tasks
    /\ w[p].st = "written"
    /\ Budget > 0
    /\ faults' = faults + 1
    /\ pieces' = [pieces EXCEPT ![p + 1] = Completed(@, w[p].body, w[p].mi)]
    /\ w' = [w EXCEPT ![p] = AfterLocalFailure(@)]
    /\ UNCHANGED <<serverMode, persisted, pc, fsz, rsup, psz, conc, k, lock,
                   completed, err, sbuf, runs, crashes, corrupts, history>>

\* The runs of Spec, with local I/O failures in the workers.
NextIO ==
    \/ Next
    \/ \E p \in 0..FileSize : WWriteFail(p)
    \/ \E p \in 0..FileSize : WSaveFail(p)

SpecIO == Init /\ [][NextIO]_vars

\* ------------------------------------ overlapping _save_piece calls
\* Lines 70, 124-130 and 243: the workers call _save_piece outside self._lock,
\* on the one connection opened with check_same_thread=False.  A call is an
\* execute and a commit on that connection; two calls that overlap in time
\* share its cursor state and its transaction without any synchronisation.
InSave == InState({"saving", "racing"})

\* Lines 240-243 and 125-126: the piece is updated in memory and the worker
\* enters _save_piece; the calls that are inside it at the same time race.
WSaveBegin(p) ==
    /\ pc \in PoolPhase
    /\ p \in Tasks
    /\ Journalable(w[p])
    /\ pieces' = [pieces EXCEPT ![p + 1] = Completed(@, w[p].body, w[p].mi)]
    /\ w' = [q \in Tasks |->
                IF q = p THEN [w[q] EXCEPT !.st = IF InSave = {} THEN "saving" ELSE "racing"]
                ELSE IF q \in InSave THEN [w[q] EXCEPT !.st = "racing"]
                ELSE w[q]]
    /\ UNCHANGED <<serverMode, persisted, pc, fsz, rsup, psz, conc, k, lock,
                   completed, err, sbuf, counters, history>>

\* The outcomes of a call that raced with another on the shared connection:
\* the row is committed or not, and the call returns or raises
\* (sqlite3.OperationalError "cannot start a transaction within a
\* transaction", "cannot commit - no transaction is active", ...).
RaceOutcomes == [stored : BOOLEAN, raises : BOOLEAN]

\* Lines 126-130 and 244-246: the call ends.  Alone on the connection it has
\* committed its row when it returns; an exception it raises is swallowed by
\* the worker's except clause like a failure of the mirror.  An outcome other
\* than the committed row and the normal return counts as a fault.
WSaveEnd(p) ==
    /\ pc \in PoolPhase
    /\ p \in InSave
    /\ \E o \in IF w[p].st = "racing" THEN RaceOutcomes
                 ELSE {[stored |-> TRUE, raises |-> FALSE]} :
         /\ faults' = IF o.stored /\ ~o.raises THEN faults ELSE faults + 1
         /\ faults' <= faults + Budget
         /\ rows' = IF o.stored THEN SavePiece(rows, pieces[p + 1]) ELSE rows
         /\ w' = [w EXCEPT ![p] = IF o.raises THEN AfterLocalFailure(@)
                                   ELSE [@ EXCEPT !.st = "saved", !.body = <<>>]]
    /\ UNCHANGED <<serverMode, dbExists, destExists, dest, meta, pc, fsz, rsup, psz, conc,
                   pieces, k, lock, completed, err, sbuf, runs, crashes, corrupts, history>>

\* The runs of the program: the workers' _save_piece calls may overlap.
NextTxn ==
    \/ Steps
    \/ \E p \in 0..FileSize : WSaveBegin(p)
    \/ \E p \in 0..FileSize : WSaveEnd(p)

SpecTxn == Init /\ [][NextTxn]_vars

\* ------------------------------------------------ the pool's threads by name
\* The runs of Spec in which the process is not killed and the files are not
\* damaged, with the thread that runs each task recorded.
NextThreads ==
    \/ Calls
    \/ \E p \in 0..FileSize : \E t \in 1..MaxConcurrency : WStartOn(p, t)
    \/ \E p \in 0..FileSize : WSave(p)

SpecThreads == Init /\ [][NextThreads]_vars

\* ------------------------------------------------------- fair scheduling
\* The steps of the main thread and of the workers inside download().
Scheduled ==
    \/ Download
    \/ \E p \in 0..FileSize : WStart(p)
    \/ \E p \in 0..FileSize : WSave(p)

\* The runs in which the process is not killed and the files are not damaged.
NextLive ==
    \/ Calls
    \/ \E p \in 0..FileSize : WStart(p)
    \/ \E p \in 0..FileSize : WSave(p)

\* Every request and every I/O call returns and the threads are scheduled
\* fairly: a step of download() that stays possible is eventually taken.
SpecLive == Init /\ [][NextLive]_vars /\ WF_vars(Scheduled)

\* ------------------------------------------------------ the planner alone
\* download() at line 193 of a first run, for a resource of file_size bytes and
\* a piece_size argument, each of 1..MaxPlanSize: the probe's answer is
\* persisted, the destination prepared, the manifest not initialised.
InitPlan ==
    /\ serverMode \in {"ranges", "noranges"}
    /\ fsz \in 1..MaxPlanSize
    /\ psz \in 1..MaxPlanSize
    /\ rsup = (serverMode = "ranges")
    /\ dbExists = TRUE
    /\ destExists = TRUE
    /\ dest = PreparedDest(FALSE, <<>>, fsz, rsup)
    /\ meta = SetMeta(SetMeta(EmptyFn, "file_size", fsz),
                      "range_supported", IF rsup THEN 1 ELSE 0)
    /\ rows = <<>>
    /\ pc = "load"
    /\ conc = 1
    /\ pieces = <<>> /\ k = 1 /\ w = EmptyFn /\ lock = NoHolder
    /\ completed = 0 /\ err = NoErr /\ sbuf = <<>>
    /\ runs = 1 /\ crashes = 0 /\ corrupts = 0 /\ faults = 0
    /\ net = {"probe"} /\ attempts = EmptyFn /\ seqReq = NoReq
    /\ dest0 = <<>> /\ rows0 = <<>> /\ meta0 = EmptyFn /\ verified = {} /\ demoted = {}
    /\ progress = <<>>
    /\ probed = NoProbe

\* Lines 193-199: plan and save the table.
NextPlan ==
    \/ LoadOrPlan
    \/ InitSave

SpecPlan == InitPlan /\ [][NextPlan]_vars

\* ------------------------------------------------------ the probe, traced
\* A faulty variant of ProbedUrl: the last mirror is probed.
ProbedUrlLast == NumMirrors

\* Line 162: self._probe_server(self.urls[0]); the mirrors are numbered from 1.
ProbedUrl == 1

\* Lines 135-152: the requests _probe_server sends to url, in order, each with
\* whether it raised: the HEAD, the GET after a HEAD status >= 400, and the
\* bytes=0-0 GET when the response in hand lacks Accept-Ranges: bytes.
ProbeRequests(url, head, get, rp) ==
    <<[url |-> url, kind |-> "HEAD", exc |-> head.exc]>>
    \o (IF ~head.exc /\ head.status >= 400
        THEN <<[url |-> url, kind |-> "GET", exc |-> get.exc]>> ELSE <<>>)
    \o (IF ~get.exc /\ ~get.ar
        THEN <<[url |-> url, kind |-> "RANGE", exc |-> rp.exc]>> ELSE <<>>)

\* The Content-Length each of the other mirrors would report.
OtherLengths(mode) == [Urls \ {ProbedUrl} -> ProbeSizes(mode)]

\* The probe of lines 162-167, recording the requests it sent and the
\* Content-Length each mirror reports (for the probed mirror: that of the
\* response the size was read from).
ProbeTraced ==
    \E head \in HeadResponses(serverMode) :
    \E get \in IF ~head.exc /\ head.status >= 400
               THEN HeadResponses(serverMode) ELSE {head} :
    \E rp \in IF ~get.exc /\ ~get.ar
              THEN RangeProbeResponses(serverMode)
              ELSE {[exc |-> FALSE, status |-> 206]} :
    \E others \in OtherLengths(serverMode) :
        /\ ProbeStep(head, get, rp)
        /\ probed' = [sent |-> ProbeRequests(ProbedUrl, head, get, rp),
                      lengths |-> [m \in Urls |-> IF m = ProbedUrl THEN get.length
                                                  ELSE others[m]]]

\* The runs up to the saved plan, with the probe traced.
NextProbe ==
    \/ Start
    \/ ProbeTraced
    \/ Prepare
    \/ LoadOrPlan
    \/ InitSave
    \/ Finish

SpecProbe == Init /\ [][NextProbe]_vars

\* -------------------------------------------------- arbitrary arguments
\* The runs of Spec, with a caller that constructs the downloader with any of
\* the url lists.
ConstructUrls ==
    \E u \in UrlArgs : \E c \in 1..MaxConcurrency : Construct(u, PieceSize, c)

NextUrls ==
    \/ Next
    \/ ConstructUrls

SpecUrls == Init /\ [][NextUrls]_vars

\* The runs of Spec, with a caller that constructs the downloader with any of
\* the arguments.
ConstructAny ==
    \E u \in UrlArgs : \E ps \in PieceSizeArgs : \E c \in ConcurrencyArgs :
        Construct(u, ps, c)

NextArgs ==
    \/ Next
    \/ ConstructAny

SpecArgs == Init /\ [][NextArgs]_vars

\* ================================================================ claims
\* What the claims speak of.
PieceLen(piece) == piece.end - piece.start + 1
RangeOf(d, piece) == ReadAt(d, piece.start, PieceLen(piece))
\* The destination holds the resource's first n bytes and nothing else.
IsResource(d, n) == Len(d) = n /\ \A o \in 0..(n - 1) : d[o + 1] = Res[o + 1]
\* The worker of piece p took a response as a success.
TookSuccess(p) ==
    p \in Tasks /\ w[p].st \in {"got", "locked", "written", "saved", "counting", "finished"}
LastAttempt(p) == attempts[p][Len(attempts[p])]
Fetched == {p \in DOMAIN attempts : attempts[p] # <<>>}

\* C1: whenever download() returns normally, the destination is byte for byte
\* the remote resource: its length is the probed file_size and every offset
\* below it holds the resource's byte.  Stated for a first run that nothing
\* terminated, a destination nothing else wrote to and a probe that reported
\* the resource's length.
C1_ByteExactOnReturn ==
    (pc = "returned" /\ runs = 1 /\ crashes = 0 /\ corrupts = 0 /\ fsz = FileSize)
        => IsResource(dest, fsz)

\* C2: with a deterministic server and no external writer, a run terminated at
\* any step and re-run until it returns leaves the destination an uninterrupted
\* run leaves, which is the resource.
C2_CrashSafe ==
    (serverMode # "any" /\ corrupts = 0 /\ pc = "returned") => IsResource(dest, FileSize)

\* C3: whenever download() returns or raises, every piece row with status done
\* has the sha256 of the destination bytes [start, end] (nothing but
\* download() having written to the destination, the probe having reported the
\* resource's length).
C3_HashOnDone ==
    (pc \in {"returned", "raised"} /\ corrupts = 0 /\ fsz = FileSize)
        => \A i \in 1..Len(rows) :
              rows[i].status = "done" => Sha256(RangeOf(dest, rows[i])) = rows[i].sha256

\* C4: in range mode a response counts as a success for a piece only if its
\* status is 200 or 206 and its body has exactly end - start + 1 bytes.
C4_SuccessNeedsExactLength ==
    \A p \in Tasks :
        (TookSuccess(p) /\ fsz = FileSize) =>
            /\ LastAttempt(p).status \in {200, 206}
            /\ LastAttempt(p).len = PieceLen(pieces[p + 1])

\* C5 as stated: a run that starts with every piece done and intact performs no
\* network I/O at all and leaves the destination unchanged.
AllDoneIntact(d, table) == table # <<>> /\ \A i \in 1..Len(table) : Intact(d, table[i])
InRun == pc # "idle"
C5_NoNetworkAtAll ==
    (InRun /\ AllDoneIntact(dest0, rows0)) => (net = {} /\ dest = dest0)

\* C5 as amended: a run that starts with every piece done and intact, and whose
\* probe of the first mirror reports the destination's length as the file
\* size, performs no network I/O other than that probe, leaves the destination
\* unchanged and returns normally.
C5_ResumeOnlyProbes ==
    (InRun /\ pc # "probe" /\ AllDoneIntact(dest0, rows0) /\ fsz = Len(dest0))
        => /\ net = {"probe"}
           /\ dest = dest0
           /\ rows = rows0
           /\ pc \in {"prepare", "load", "verify", "dispatch", "returned"}
C5_Witness ==
    /\ pc = "returned" /\ AllDoneIntact(dest0, rows0) /\ fsz = Len(dest0)
    /\ net = {"probe"} /\ dest = dest0

\* C6: in a resumed range-mode run no piece GET is issued for a piece an earlier
\* run recorded done and whose bytes still hash to its sha256 when verified;
\* a fetched piece was either not done or demoted by the verifier.
DoneBefore(p) == p + 1 <= Len(rows0) /\ rows0[p + 1].status = "done"
C6_VerifiedNotFetched ==
    rsup => \A p \in Fetched : p \notin verified /\ (DoneBefore(p) => p \in demoted)
C6_Witness ==
    /\ pc = "returned" /\ rsup /\ runs >= 2
    /\ \E p \in verified : DoneBefore(p) /\ p \notin Fetched
    /\ Fetched # {}

\* C7: after a completed range-mode download (the destination was the resource
\* and every piece was done with the hash of its bytes), an external overwrite
\* of bytes (length unchanged) and a new run against the same server: exactly
\* the pieces whose bytes no longer match are demoted and fetched again, and on
\* return the destination is the resource again and every piece is done.
WasResourceBeforeOverwrite(d) ==
    Len(d) = FileSize /\ \A i \in 1..FileSize : d[i] \in {Res[i], Junk}
WasCompleteDownload(table) ==
    /\ Len(table) = PieceCount(FileSize, PieceSize)
    /\ \A i \in 1..Len(table) :
          /\ table[i].start = EnumeratePieces(FileSize, PieceSize)[i].start
          /\ table[i].end = EnumeratePieces(FileSize, PieceSize)[i].end
          /\ table[i].status = "done"
          /\ table[i].sha256 = Sha256(RangeOf(Res, table[i]))
C7_CorruptionRecovery ==
    (/\ pc = "returned" /\ rsup /\ fsz = FileSize /\ corrupts >= 1
     /\ HasMeta(meta0, "range_supported") /\ meta0["range_supported"] = 1
     /\ WasCompleteDownload(rows0)
     /\ WasResourceBeforeOverwrite(dest0))
        => /\ IsResource(dest, FileSize)
           /\ \A i \in 1..Len(rows) : rows[i].status = "done"
           /\ demoted = {p \in 0..(Len(rows0) - 1) : Mismatch(dest0, rows0[p + 1])}
           /\ Fetched = demoted

\* C8: for each piece the mirrors are requested in the order of the urls list,
\* mirror i+1 only after mirror i failed for that piece (exception or status
\* other than 200/206), none after a success, and the persisted last_url is
\* the mirror whose response was written.
Failed(a) == a.exc \/ a.status \notin {200, 206}
AllMirrorsFailed(p) ==
    /\ p \in DOMAIN attempts
    /\ Len(attempts[p]) = NumMirrors
    /\ \A i \in 1..NumMirrors : Failed(attempts[p][i])
C9_FatalIffAllMirrorsFail ==
    /\ \A p \in Tasks : (w[p].st = "failed") <=> AllMirrorsFailed(p)
    /\ (\E p \in Tasks : AllMirrorsFailed(p)) => pc # "returned"
    /\ (pc \in {"failing", "raised"} /\ err.idx >= 0)
          => err.kind = "DownloadError" /\ AllMirrorsFailed(err.idx)
C9_Witness ==
    /\ pc = "raised" /\ err.idx >= 0 /\ AllMirrorsFailed(err.idx)
    /\ \E q \in Tasks : w[q].st = "finished"

\* C10: on a fatal exit (a piece exhausted its mirrors) the manifest marks done
\* exactly the pieces whose bytes were fully written to the destination, in this
\* run or an earlier one: a piece done and intact at the start stays done with
\* its hash, and no piece is done without all end - start + 1 of its bytes
\* written.
FullyWritten(p) ==
    /\ p \in Tasks
    /\ w[p].st = "finished"
    /\ LastAttempt(p).len >= PieceLen(pieces[p + 1])
C10_ManifestExactOnFatal ==
    (pc = "raised" /\ err.idx >= 0 /\ corrupts = 0 /\ fsz = FileSize)
        => \A i \in 1..Len(rows) :
              /\ (i - 1) \in verified
                    => rows[i].status = "done" /\ rows[i].sha256 = rows0[i].sha256
              /\ rows[i].status = "done" <=> ((i - 1) \in verified \/ FullyWritten(i - 1))

\* C11: in every state in which the manifest has initialised = 1 (after any
\* number of runs, terminations at any step and differing probe results), the
\* piece rows ordered by idx tile [0, file_size) for the manifest's file_size:
\* the first starts at 0, each next starts right after the one before, and the
\* last ends at file_size - 1.
Tiles(table, n) ==
    /\ table # <<>>
    /\ table[1].start = 0
    /\ \A i \in 1..(Len(table) - 1) : table[i + 1].start = table[i].end + 1
    /\ table[Len(table)].end = n - 1
C11_TilingAcrossRuns ==
    HasMeta(meta, "initialised") => Tiles(rows, meta["file_size"])

\* C12: in every committed state of the manifest every piece row has status
\* pending or done, and a sha256 if and only if its status is done: after
\* initialisation, after a demotion by the verifier, after a worker's
\* completion and after the sequential fallback.
C12_StatusAndHash ==
    \A i \in 1..Len(rows) :
        /\ rows[i].status \in {"pending", "done"}
        /\ (rows[i].sha256 # None) <=> (rows[i].status = "done")
C12_Witness ==
    /\ \E p \in demoted : rows[p + 1].status = "pending" /\ rows[p + 1].sha256 = None
    /\ \E i \in 1..Len(rows) : rows[i].status = "done" /\ rows[i].sha256 # None

\* C13: sequential fallback, the destination holds existing_size > 0 bytes, the
\* GET is sent with Range: bytes=existing_size- and the server answers 200 with
\* the whole resource: the destination is truncated before the stream is
\* written, so on return it is the resource and has length file_size.
\* Stated for a destination that held the first existing_size bytes of the
\* resource when the run started.
C13_FullBodyOnResume ==
    (/\ pc = "returned" /\ seqReq.range > 0 /\ seqReq.status = 200 /\ fsz = FileSize
     /\ IsResource(dest0, Len(dest0)))
        => IsResource(dest, fsz)

\* C14: when the probe reports no range support and the sequential stream ends
\* without an exception, every piece of the table is journaled done with
\* last_url the first mirror and sha256 the hash of the resource's bytes
\* [start, end], also when the server closes the stream before file_size bytes
\* were received.  Stated for a first run that nothing terminated and whose
\* probe reported the resource's length.
C14_FallbackJournal ==
    (/\ pc = "returned" /\ ~rsup /\ seqReq # NoReq
     /\ runs = 1 /\ crashes = 0 /\ corrupts = 0 /\ fsz = FileSize)
        => /\ rows # <<>>
           /\ \A i \in 1..Len(rows) :
                 /\ rows[i].status = "done"
                 /\ rows[i].last_url = 1
                 /\ rows[i].sha256 = Sha256(RangeOf(Res, rows[i]))

\* C15: when the sequential GET is answered with a status other than 200 or
\* 206, download() raises DownloadError carrying that status, and the attempt
\* changes neither the destination nor any piece row: the pieces that were
\* pending stay pending.
SeqRejected == InRun /\ seqReq # NoReq /\ seqReq.status \notin {0, 200, 206}
C15_SequentialStatusRejected ==
    /\ [](SeqRejected =>
            /\ pc = "raised"
            /\ err = [kind |-> "DownloadError", idx |-> 0 - 1, status |-> seqReq.status])
    /\ [][(pc = "seq" /\ SeqRejected')
            => (dest' = dest /\ destExists' = destExists /\ rows' = rows /\ meta' = meta)]_vars
C15_Witness ==
    /\ SeqRejected /\ pc = "raised" /\ err.status = seqReq.status
    /\ \E i \in 1..Len(rows) : rows[i].status = "pending"

\* C16: at every instant of a range-mode run, the number of pieces whose fetch
\* is in flight (a thread has taken the piece; it is not yet journaled and
\* counted, nor failed) is at most the configured concurrency.
InFlight == InState(Running)
C16_AtMostNInFlight ==
    pc \in PoolPhase => Cardinality(InFlight) <= conc
C16_Witness ==
    /\ pc = "pool" /\ conc >= 2 /\ Cardinality(InFlight) = conc
    /\ \A p \in InFlight : attempts[p] # <<>>

\* C17: if all mirrors return identical bytes for every range, two successful
\* runs that differ only in which mirror served which piece (any failover
\* pattern, any interleaving of the workers) end with identical destinations.
\* One of those runs has one worker thread and no failover: it writes the
\* pieces in idx order.  So every successful first run against mirrors that
\* all serve a range the same way (the exact range with 206, the range less
\* its last byte with 206, or the whole resource with 200) must end with the
\* destination that in-order run ends with.
ServeKinds == {"exact", "short", "whole"}
ServedBody(kind, piece) ==
    IF kind = "whole" THEN Res
    ELSE IF kind = "short" THEN ReadAt(Res, piece.start, PieceLen(piece) - 1)
    ELSE ReadAt(Res, piece.start, PieceLen(piece))
ServedStatus(kind) == IF kind = "whole" THEN 200 ELSE 206
MirrorsServe(kind) ==
    \A p \in DOMAIN attempts : \A i \in 1..Len(attempts[p]) :
        \/ attempts[p][i].exc
        \/ attempts[p][i].status >= 500
        \/ /\ attempts[p][i].status = ServedStatus(kind)
           /\ attempts[p][i].len = Len(ServedBody(kind, pieces[p + 1]))
RECURSIVE InOrderRun(_, _, _, _)
InOrderRun(d, ps, i, kind) ==
    IF i > Len(ps) THEN d
    ELSE InOrderRun(WriteAt(d, ps[i].start, ServedBody(kind, ps[i])), ps, i + 1, kind)
C17_MirrorEquivalence ==
    (pc = "returned" /\ rsup /\ runs = 1 /\ fsz = FileSize /\ Tasks # {})
        => \A kind \in ServeKinds :
              MirrorsServe(kind) => dest = InOrderRun(Zeros(fsz), pieces, 1, kind)

\* C18: a manifest store failure while journaling a piece, or a destination
\* write failure inside a worker, is fatal to the current download: download()
\* never returns normally after such a failure, even if a later mirror attempt
\* for the same piece succeeds.
LocalFailure == \E p \in Tasks : w[p].io
C18_LocalFailureIsFatal ==
    LocalFailure => pc # "returned"

\* C19: constructing the downloader with a url list that is empty or holds
\* only blank strings fails with a configuration error (ValueError) and creates
\* no file: the manifest database and the destination exist afterwards only if
\* they existed before, and their contents are untouched.
AllBlank(u) == \A i \in 1..Len(u) : \A j \in 1..Len(u[i]) : u[i][j] = Space
BlankArgs == {u \in UrlArgs : AllBlank(u)}
\* A step is a construction from u, whatever the piece size and the concurrency
\* passed with it, exactly if it is Construct(u, psz', conc').
C19_BlankUrlsRejected ==
    [][(pc = "idle" /\ pc' # "idle") =>
          \A u \in BlankArgs :
              Construct(u, psz', conc')
                  => /\ pc' = "rejected"
                     /\ err'.kind = "ValueError"
                     /\ dbExists' = dbExists
                     /\ destExists' = destExists
                     /\ UNCHANGED <<dest, meta, rows>>]_vars
C19_Witness ==
    pc = "rejected" /\ err.kind = "ValueError" /\ ~dbExists /\ ~destExists

\* C20: a piece_size <= 0 or a concurrency <= 0 is rejected at construction,
\* so download() never runs with one: it never plans pieces with a
\* non-positive piece size, never returns normally with an empty piece table
\* and never reaches the pool with a non-positive size.
C20_BoundsValidated ==
    /\ pc \notin {"idle", "rejected"} => (psz > 0 /\ conc > 0)
    /\ pc = "returned" => rows # <<>>

\* C21: when the probe yields file_size = 0 (Content-Length missing, not a
\* number or zero, or the probe request raised), download() raises
\* DownloadError before any work: the meta table, the piece table and the
\* destination are as they were when download() was called, and neither a
\* piece request nor the sequential GET is issued.
ProbeFoundNoSize == InRun /\ pc \notin {"probe", "rejected"} /\ fsz = 0
C21_NoSizeNoWork ==
    /\ [](ProbeFoundNoSize =>
            /\ pc = "raised"
            /\ err = [kind |-> "DownloadError", idx |-> 0 - 1, status |-> 0]
            /\ meta = meta0 /\ rows = rows0 /\ dest = dest0
            /\ net = {"probe"} /\ attempts = EmptyFn /\ seqReq = NoReq)
    /\ [][(pc = "probe" /\ ProbeFoundNoSize')
            => (destExists' = destExists /\ dest' = dest /\ rows' = rows /\ meta' = meta)]_vars
C21_Witness ==
    /\ ProbeFoundNoSize /\ pc = "raised" /\ err.kind = "DownloadError"
    /\ runs >= 2 /\ rows # <<>> /\ HasMeta(meta, "file_size")

\* C22: in range mode a progress event (completed, total) is emitted once after
\* each piece that succeeded and never for a failed piece; under every
\* interleaving of the workers the completed values emitted are 1, 2, ... in
\* this order, without a duplicate and never above total = the number of pieces
\* that were pending, and the last one is total when download() returns.
Reported == {progress[i].idx : i \in 1..Len(progress)}
C22_ProgressCounts ==
    /\ \A i \in 1..Len(progress) :
          /\ progress[i].completed = i
          /\ progress[i].total = Cardinality(Tasks)
          /\ progress[i].completed <= progress[i].total
          /\ progress[i].idx \in Tasks
          /\ rows[progress[i].idx + 1].status = "done"
          /\ ~Failed(LastAttempt(progress[i].idx))
    /\ Cardinality(Reported) = Len(progress)
    /\ Reported = InState({"finished"})
    /\ pc \in {"returned", "raised"} => InState({"saved", "counting"}) = {}
    /\ (pc = "returned" /\ Tasks # {})
          => (progress # <<>> /\ progress[Len(progress)].completed = Cardinality(Tasks))
C22_Witness ==
    /\ pc = "returned" /\ Len(progress) >= 2
    /\ progress[1].idx > progress[2].idx
    /\ progress[2].completed = 2 /\ progress[2].total = 2

\* C23: write before journal.  A piece's row is committed done by a worker only
\* after the worker wrote the piece's body to the destination, closed the file
\* and released the lock; so with mirrors that honour Range and a destination
\* nothing else writes to, in no state (between runs and after a termination at
\* any step included) is a piece done in the manifest while the destination
\* does not hold its bytes.
JournaledBy(p) == rows[p + 1].status # "done" /\ rows'[p + 1].status = "done"
InWriteSection == InState({"locked"})
C24_WritesExcluded ==
    /\ Cardinality(InWriteSection) <= 1
    /\ \A p \in Tasks : (w[p].st = "locked") <=> (lock = p)
    /\ InWriteSection = {} => lock = NoHolder
C24_Witness ==
    /\ Cardinality(InWriteSection) = 1
    /\ \E q \in Tasks : w[q].st = "got" /\ lock # q /\ lock # NoHolder

\* C25: the manifest store is safe under concurrent _save_piece calls of the
\* workers on the shared connection: whatever the interleaving, a call that
\* has returned has committed its row, no call raises, and when all workers
\* have finished every piece whose worker completed is done in the manifest.
SaveReturned(p) == w[p].st \in {"saved", "counting", "finished"}
C25_ConcurrentSavesSafe ==
    /\ \A p \in Tasks : SaveReturned(p) => rows[p + 1] = pieces[p + 1]
    /\ \A p \in Tasks : ~w[p].io
    /\ pc = "returned" => \A i \in 1..Len(rows) : rows[i].status = "done"

\* C26: the verifier.  When it has run, every piece that was done with a
\* sha256 and whose destination bytes [start, end] hash to something else (also
\* when the destination ends before end) is pending with no sha256, in memory
\* and in the manifest, and every other piece is as it was: a piece whose bytes
\* match stays done, a pending piece stays pending.  No step of the verifier
\* changes the idx, start or end of a row, promotes a row to done or writes to
\* the destination.
VerifierInput == IF HasMeta(meta0, "initialised") THEN rows0 ELSE EnumeratePieces(fsz, psz)
HashDiffers(d, piece) ==
    /\ piece.status = "done"
    /\ piece.sha256 # None
    /\ Sha256(RangeOf(d, piece)) # piece.sha256
Demoted(piece) ==
    [idx |-> piece.idx, start |-> piece.start, end |-> piece.end,
     sha256 |-> None, status |-> "pending", last_url |-> piece.last_url]
C26_Verifier ==
    /\ [](pc = "dispatch" =>
            /\ Len(rows) = Len(VerifierInput)
            /\ pieces = rows
            /\ \A i \in 1..Len(rows) :
                  rows[i] = IF HashDiffers(dest, VerifierInput[i])
                            THEN Demoted(VerifierInput[i]) ELSE VerifierInput[i])
    /\ [][(pc = "verify" /\ pc' \in {"verify", "dispatch"}) =>
            /\ dest' = dest /\ destExists' = destExists
            /\ Len(rows') = Len(rows)
            /\ \A i \in 1..Len(rows) :
                  /\ rows'[i].idx = rows[i].idx
                  /\ rows'[i].start = rows[i].start
                  /\ rows'[i].end = rows[i].end
                  /\ rows'[i].status = "done" => rows'[i] = rows[i]]_vars
C26_Witness ==
    /\ pc = "dispatch"
    /\ \E p \in demoted : rows0[p + 1].end >= Len(dest) /\ rows[p + 1].status = "pending"
    /\ \E q \in verified : rows[q + 1].status = "done"

\* C27: frozen manifest.  Once initialised = 1 has been persisted, no operation
\* of a later run changes the set of piece indices, the start or end of a
\* piece, or the manifest's file_size: throughout a run that found the
\* manifest initialised they are what they were when the run started.
Intervals(table) == [i \in 1..Len(table) |-> <<table[i].idx, table[i].start, table[i].end>>]
C27_FrozenManifest ==
    (InRun /\ HasMeta(meta0, "initialised"))
        => /\ HasMeta(meta, "initialised")
           /\ meta["file_size"] = meta0["file_size"]
           /\ Intervals(rows) = Intervals(rows0)

\* C28: for every file_size >= 1 and piece_size >= 1 the planner returns
\* ceil(file_size / piece_size) pieces with idx 0, 1, ... in order, each pending
\* with no hash, start = idx * piece_size and
\* end = min(start + piece_size, file_size) - 1; every piece holds at least one
\* byte and at most piece_size, and only the last is shorter than piece_size,
\* exactly when file_size is not a multiple of piece_size.
IsCeil(n, a, b) == (n - 1) * b < a /\ a <= n * b
Planned == pc = "init" /\ fsz >= 1 /\ psz >= 1
C28_Planner ==
    Planned =>
        /\ IsCeil(Len(pieces), fsz, psz)
        /\ \A i \in 1..Len(pieces) :
              /\ pieces[i].idx = i - 1
              /\ pieces[i].status = "pending"
              /\ pieces[i].sha256 = None
              /\ pieces[i].start = (i - 1) * psz
              /\ pieces[i].end = Min(pieces[i].start + psz, fsz) - 1
              /\ PieceLen(pieces[i]) >= 1
              /\ PieceLen(pieces[i]) <= psz
              /\ i < Len(pieces) => PieceLen(pieces[i]) = psz
        /\ (PieceLen(pieces[Len(pieces)]) < psz) <=> (fsz % psz # 0)
C28_Witness ==
    /\ Planned /\ Len(pieces) >= 3 /\ fsz % psz # 0
    /\ PieceLen(pieces[Len(pieces)]) < psz
    /\ k > Len(pieces) /\ Len(rows) = Len(pieces)

\* C29: the planner runs once per destination: over any sequence of runs on
\* the same destination and manifest, terminated at any step and restarted, the
\* piece table is written by the planner in one run only; a run that finds rows
\* an earlier run's planner wrote loads them and does not plan.
C29_PlannedOnce ==
    (InRun /\ rows0 # <<>>) => pc # "init"

\* C30: once download() has observed a worker's fatal failure and cancelled the
\* sibling futures, no piece whose fetch had not started begins fetching: no
\* task is left queued, no cancelled task has issued a request, and from then
\* on only the tasks already in flight change.
AfterCancel == pc \in {"failing", "raised"} /\ err.idx >= 0
C30_NoNewWorkAfterFailure ==
    /\ [](AfterCancel =>
            /\ InState({"queued"}) = {}
            /\ \A p \in InState({"cancelled"}) :
                  attempts[p] = <<>> /\ rows[p + 1].status # "done")
    /\ [][(AfterCancel /\ pc' # "idle") =>
            \A p \in Tasks : w[p].st \notin Running => w'[p] = w[p]]_vars
C30_Witness ==
    /\ pc = "raised" /\ err.idx >= 0
    /\ \E p \in InState({"cancelled"}) : attempts[p] = <<>> /\ rows[p + 1].status = "pending"

\* C31: any network exception raised during probing, in the HEAD request, in
\* the GET fallback or in the bytes=0-0 request, makes _probe_server return
\* (0, false).
ProbeRaised == \E i \in 1..Len(probed.sent) : probed.sent[i].exc
C31_ProbeExceptionYieldsZero ==
    ProbeRaised => (fsz = 0 /\ ~rsup)

\* C32: only the first mirror is probed.  Every probe request of a run (HEAD,
\* GET fallback, bytes=0-0) goes to urls[0], and the size urls[0] reports is
\* the one persisted in the manifest, used to pre-size the destination and
\* used to plan the pieces, whatever the other mirrors would report.
FirstReports == probed.lengths[1]
C32_OnlyFirstMirrorProbed ==
    (InRun /\ probed # NoProbe) =>
        /\ probed.sent # <<>>
        /\ \A i \in 1..Len(probed.sent) : probed.sent[i].url = 1
        /\ fsz # 0 => (fsz = FirstReports /\ meta["file_size"] = FirstReports)
        /\ (pc = "load" /\ rsup) => Len(dest) = FirstReports
        /\ pc = "init" => /\ pieces # <<>>
                          /\ pieces[Len(pieces)].end = FirstReports - 1
                          /\ pieces = EnumeratePieces(FirstReports, psz)
C32_Witness ==
    /\ pc = "init" /\ rsup /\ fsz = FirstReports /\ Len(dest) = fsz
    /\ Len(probed.sent) >= 2
    /\ \E m \in Urls : probed.lengths[m] > 0 /\ probed.lengths[m] # fsz

\* C33: range-mode preparation.  After it the destination exists with length
\* file_size; it is created anew as file_size zero bytes exactly when it was
\* absent or had another length, and is left byte for byte as it was when it
\* already had length file_size.
Preparing == pc = "prepare" /\ pc' = "load"
C33_RangePreparation ==
    [][(Preparing /\ rsup) =>
          /\ destExists'
          /\ Len(dest') = fsz
          /\ dest' = IF ~destExists \/ Len(dest) # fsz THEN Zeros(fsz) ELSE dest]_vars
C33_Witness ==
    /\ pc = "load" /\ rsup /\ destExists
    /\ dest0 # <<>> /\ Len(dest0) # fsz /\ dest0 # Zeros(Len(dest0))
    /\ dest = Zeros(fsz)

\* C34: sequential-mode preparation never pre-sizes: an absent destination is
\* created empty, an existing one longer than file_size is truncated to
\* nothing, and an existing one of at most file_size bytes keeps its bytes.
C34_SequentialPreparation ==
    [][(Preparing /\ ~rsup) =>
          /\ destExists'
          /\ dest' = IF ~destExists THEN <<>>
                     ELSE IF Len(dest) > fsz THEN <<>>
                     ELSE dest]_vars
C34_Witness ==
    /\ pc = "load" /\ ~rsup /\ destExists
    /\ Len(dest0) > fsz /\ dest = <<>>

\* C35: the sequential fallback sends Range: bytes=E- exactly when the
\* destination holds E bytes with 0 < E <= file_size when the fallback starts,
\* and no Range header when it is empty or was truncated; the bytes received
\* are appended after the E existing bytes, which are never rewritten.
C35_SequentialResumeOffset ==
    /\ [][(pc = "seq" /\ pc' \in {"stream", "raised"}) =>
            /\ seqReq'.range = IF destExists /\ 0 < Len(dest) /\ Len(dest) <= fsz
                               THEN Len(dest) ELSE NoReq.range
            /\ dest' = IF Len(dest) > fsz THEN <<>> ELSE dest]_vars
    /\ [][(pc = "stream" /\ pc' \in {"stream", "journal", "raised"}) =>
            /\ Len(dest') >= Len(dest)
            /\ SubSeq(dest', 1, Len(dest)) = dest]_vars
    /\ [](pc \in {"stream", "journal"} =>
            /\ Len(dest) >= Max(seqReq.range, 0)
            /\ seqReq.range > 0 => SubSeq(dest, 1, seqReq.range) = dest0)
C35_Witness ==
    /\ pc = "stream" /\ seqReq.range > 0 /\ seqReq.range < fsz
    /\ Len(dest) > seqReq.range
    /\ SubSeq(dest, 1, seqReq.range) = dest0

\* C36: download() never returns or raises while a worker of the run is still
\* executing: when control has left download() no task is running or waiting
\* to run, the lock is free, and nothing writes to the destination or the
\* manifest any more.
LeftDownload == pc \in {"returned", "raised"}
C36_NoWorkerOutlivesDownload ==
    /\ [](LeftDownload => (InState(Running \cup {"queued"}) = {} /\ lock = NoHolder))
    /\ [][LeftDownload => (dest' = dest /\ rows' = rows /\ meta' = meta)]_vars
C36_Witness ==
    /\ pc = "raised" /\ err.idx >= 0 /\ conc >= 2
    /\ \E q \in InState({"finished"}) : q > err.idx /\ rows[q + 1].status = "done"

\* C37: within a run each pending piece is handed to exactly one task and each
\* thread of the pool works on one piece at a time: the pieces of the tasks are
\* the pending pieces, one task each; no two tasks in flight run on the same
\* thread; and a step of the pool that changes a manifest row or the
\* destination is the step of the one task of that piece.
ThreadOf(p) == w[p].th
InPool == pc \in PoolPhase /\ pc' \in PoolPhase
C37_OnePieceOneWorker ==
    /\ [](pc \in PoolPhase =>
            /\ \A p \in Tasks :
                  Cardinality({i \in 1..Len(pieces) : pieces[i].idx = p}) = 1
            /\ \A i \in 1..Len(pieces) :
                  (pieces[i].idx \in Tasks) \/ (pieces[i].status = "done")
            /\ \A p \in InFlight : ThreadOf(p) \in 1..conc
            /\ \A p \in InFlight : \A q \in InFlight \ {p} : ThreadOf(p) # ThreadOf(q))
    /\ [][InPool =>
            /\ \A i \in 1..Len(rows) :
                  rows'[i] # rows[i] =>
                      /\ (i - 1) \in Tasks
                      /\ w[i - 1].st = "written" /\ w'[i - 1].st = "saved"
                      /\ \A q \in Tasks \ {i - 1} : w'[q] = w[q]
            /\ dest' # dest =>
                  \E p \in Tasks :
                      /\ w[p].st = "locked" /\ w'[p].st = "written"
                      /\ dest' = WriteAt(dest, pieces[p + 1].start, w[p].body)
                      /\ \A q \in Tasks \ {p} : w'[q] = w[q]]_vars
C37_Witness ==
    /\ pc = "pool"
    /\ \E p \in InState({"finished"}) : \E q \in InFlight :
          ThreadOf(p) = ThreadOf(q) /\ attempts[q] # <<>>
    /\ conc >= 2

\* C38: download() returns normally only when the manifest has
\* initialised = 1, the piece table is not empty and every row is done; a run
\* that ends with a pending piece has raised.
C38_SuccessPostcondition ==
    pc = "returned" =>
        /\ HasMeta(meta, "initialised")
        /\ rows # <<>>
        /\ \A i \in 1..Len(rows) : rows[i].status = "done"

\* C39: under fair scheduling every call of download() eventually returns or
\* raises and the pool eventually drains; a worker sends a piece's request to
\* each mirror at most once.
InCall == pc \notin {"idle", "rejected", "returned", "raised"}
Ended == pc \in {"returned", "raised"}
C39_Termination ==
    /\ [](\A p \in DOMAIN attempts :
            \A i \in 1..Len(attempts[p]) : \A j \in 1..Len(attempts[p]) :
                i # j => attempts[p][i].url # attempts[p][j].url)
    /\ InCall ~> Ended
    /\ (pc \in PoolPhase) ~> (InState(Running \cup {"queued"}) = {})
C39_Witness ==
    /\ pc = "raised"
    /\ conc >= 2
    /\ \E p \in InState({"failed"}) : Len(attempts[p]) = NumMirrors
    /\ \E q \in InState({"finished"}) : Len(attempts[q]) >= 1

====
